---- MODULE Spec2Model ----
(***************************************************************************)
(* Model of the preview backend (src/fly-backend/server.js): the registry  *)
(* of containers, the WebSocket hub, the file endpoints and the execute    *)
(* endpoint; and of its client, the facade FlyContainer                    *)
(* (src/app/lib/webcontainer/index.ts): spawn with its WebSocket and the   *)
(* consumers of its output, fs.rm, on/off and the server-ready event.      *)
(*                                                                         *)
(* Strings that are paths are sequences of the segments between "/":       *)
(*   "a" = <<"a">>, "/a" = <<"", "a">>, "a/b" = <<"a", "b">>,              *)
(*   "../s2/a" = <<"..", "s2", "a">>, "/" = <<"", "">>, "" = <<>>.         *)
(* Absolute normalised paths are sequences of names from the root:         *)
(*   "/tmp/s1/a" = <<"tmp", "s1", "a">>.                                   *)
(* Time is counted in ticks of 150 s, so the 300000 ms of the cleanup      *)
(* timer are Grace = 2 ticks.  A timer fires when its delay has run out,   *)
(* before time moves on.                                                   *)
(* The payload fields stdout/stderr of process-completed and the           *)
(* timestamp of preview-ready are not carried by the events of the model.  *)
(***************************************************************************)
EXTENDS Integers, Sequences, FiniteSets, TLC

VARIABLES containers, heap, ws, timers, files, dirs, procs, emptyFor, written, out,
          spawned, boot, eventListeners, inbox, handled

vars == <<containers, heap, ws, timers, files, dirs, procs, emptyFor, written, out,
          spawned, boot, eventListeners, inbox, handled>>

(* ------------------------------ bounds -------------------------------- *)
MaxClients == 2
MaxProcs == 2

(* ----------------------------- constants ------------------------------ *)
Grace == 2
NoTimer == -1
Null == -1
NoObj == <<>>

PreviewIds == {"s1", "s2"}
Sockets == 1..MaxClients
Children == 1..MaxProcs
Uuids == 1..(MaxProcs + 1)

EmptyPath == <<>>
DefaultCwd == <<"", "">>
Contents == {"", "x"}
Undefined == "undefined"
Streams == {"stdout", "stderr"}
Chunks == {"o"}
MsgTypes == {"file-change", "preview-ready", "other", "malformed"}

(* --------------------------- path handling ---------------------------- *)
RECURSIVE NormalizeFrom(_, _)
NormalizeFrom(acc, segs) ==
  IF segs = <<>> THEN acc
  ELSE LET s == Head(segs)
           rest == Tail(segs)
       IN IF s = "" \/ s = "." THEN NormalizeFrom(acc, rest)
          ELSE IF s = ".."
               THEN NormalizeFrom(IF acc = <<>> THEN acc
                                  ELSE SubSeq(acc, 1, Len(acc) - 1), rest)
               ELSE NormalizeFrom(Append(acc, s), rest)

PathJoin(base, rel) == NormalizeFrom(<<>>, base \o rel)

Dirname(p) == IF p = <<>> THEN p ELSE SubSeq(p, 1, Len(p) - 1)

ContainerDir(previewId) == PathJoin(<<"tmp">>, <<previewId>>)

IsPrefix(p, q) == Len(p) <= Len(q) /\ SubSeq(q, 1, Len(p)) = p

Prefixes(p) == {SubSeq(p, 1, n) : n \in 0..Len(p)}

(* fs.mkdirSync(p, {recursive: true}) *)
MkdirOk(fl, p) == \A q \in Prefixes(p) : q \notin DOMAIN fl
MkdirDirs(ds, p) == ds \cup Prefixes(p)

(* fs.writeFileSync(p, content) after the parent was created *)
WriteFileOk(ds, p) == p \notin ds

ExistsSync(fl, ds, p) == p \in DOMAIN fl \/ p \in ds

(* Map.prototype.set *)
MapSet(m, k, v) == [x \in DOMAIN m \cup {k} |-> IF x = k THEN v ELSE m[x]]
MapDelete(m, k) == [x \in DOMAIN m \ {k} |-> m[x]]
EmptyMap == [x \in {} |-> 0]

CacheSetOnce(cache, filePath, content) ==
  IF filePath \in DOMAIN cache THEN cache ELSE MapSet(cache, filePath, content)

(* container.files.set(filePath, content), lines 143 and 182 *)
CacheSet(cache, filePath, content) == MapSet(cache, filePath, content)

(* ---------------------------- the registry ---------------------------- *)
Registered(previewId) == containers[previewId] # NoObj

(* Objects are named, not addressed: the container registered for an     *)
(* identifier is <<identifier, 0>>, and a container that left the registry *)
(* while callbacks of running children still hold it is <<identifier, k>>  *)
(* for the least such child k.                                            *)
NewObj(h, previewId) == <<previewId, 0>>

createContainer(previewId) ==
  [id |-> previewId, dir |-> ContainerDir(previewId), clients |-> {},
   files |-> EmptyMap, processes |-> EmptyMap]

(* the objects still referenced by the registry, by a handler of a socket *)
(* that has not closed, or by the callback of a running child             *)
Running(p) == {k \in Children : p[k].state = "running"}

Reachable(c, w, p) ==
  {c[i] : i \in PreviewIds}
    \cup {w[s].container : s \in {t \in Sockets : w[t].state \in {"open", "closing"}}}
    \cup {p[k].container : k \in Running(p)}

Collect(h, c, w, p) == [o \in DOMAIN h \cap Reachable(c, w, p) |-> h[o]]

(* the name of object o once the registry is c and the children are p *)
Holders(o, p) == {k \in Running(p) : p[k].container = o}

Rename(o, c, p) ==
  IF o \in {c[i] : i \in PreviewIds} \/ Holders(o, p) = {}
  THEN o
  ELSE <<o[1], CHOOSE k \in Holders(o, p) : \A j \in Holders(o, p) : k <= j>>

(* a container that left the registry is held by callbacks of exec only,  *)
(* which use its process map (line 223): its file map is dead and dropped *)
Detached(obj) == [obj EXCEPT !.files = EmptyMap]

RenameHeap(h, c, w, p) ==
  LET live == DOMAIN h \cap Reachable(c, w, p)
      registered == {c[i] : i \in PreviewIds}
  IN [n \in {Rename(o, c, p) : o \in live} |->
        LET o == CHOOSE x \in live : Rename(x, c, p) = n
        IN IF o \in registered THEN h[o] ELSE Detached(h[o])]

RenameProcs(c, p) ==
  [k \in Children |->
     IF p[k].state = "running"
     THEN [p[k] EXCEPT !.container = Rename(p[k].container, c, p)]
     ELSE p[k]]

(* lines 49-54, 128-132, 202-206: get the container or create it *)
GetOrCreateObj(previewId) ==
  IF Registered(previewId) THEN containers[previewId] ELSE NewObj(heap, previewId)

GetOrCreateHeapAlways(previewId) ==
  MapSet(heap, NewObj(heap, previewId), createContainer(previewId))

GetOrCreateHeap(previewId) ==
  IF Registered(previewId) THEN heap
  ELSE MapSet(heap, NewObj(heap, previewId), createContainer(previewId))

GetOrCreateDirs(previewId) ==
  IF Registered(previewId) THEN dirs ELSE MkdirDirs(dirs, ContainerDir(previewId))

(* ------------------------------ the hub ------------------------------- *)
RecipientsAll(c, h, w, previewId) ==
  {s \in Sockets : w[s].state = "open"}

(* the clients that get the message: lines 106-115 *)
Recipients(c, h, w, previewId) ==
  IF c[previewId] # NoObj
  THEN {s \in h[c[previewId]].clients : w[s].state = "open"}
  ELSE {}

broadcastToContainerTwice(c, h, w, previewId, data) ==
  LET b == [previewId |-> previewId, data |-> data,
            to |-> Recipients(c, h, w, previewId)]
  IN <<b, b>>

(* lines 105-117: the message is sent once to each of the recipients *)
broadcastToContainer(c, h, w, previewId, data) ==
  <<[previewId |-> previewId, data |-> data, to |-> Recipients(c, h, w, previewId)]>>

NoBroadcast == <<>>

(* what the last step sent out: the answer to a request and the message   *)
(* handed to the hub; a step of a socket or of time sends nothing         *)
NoResp == [status |-> 0]

NoOut == [op |-> "", id |-> "", arg |-> <<>>, resp |-> NoResp, bcast |-> NoBroadcast]

(* ------------------------ the facade: its state ----------------------- *)
(* src/app/lib/webcontainer/index.ts: one FlyContainer.  Its previewId    *)
(* (crypto.randomUUID(), line 21) is FacadeId; the WebSocket that spawn   *)
(* opens (line 123) is connection SpawnSocket and the one that the boot   *)
(* code opens (line 325) is connection MainSocket.  inbox[s] holds the    *)
(* messages the server has sent on connection s that the facade has not   *)
(* handled yet, at most MaxInFlight of them.                              *)
MaxInFlight == 2
MaxListeners == 2

FacadeId == "s1"
SpawnSocket == 1
MainSocket == 2
FacadeSockets == {SpawnSocket, MainSocket}

(* a promise that has not been resolved *)
Unresolved == -2

(* the object that spawn returns, lines 126-252, and the request before it *)
NoProcess ==
  [state |-> "none", command |-> "", response |-> NoResp, processId |-> 0,
   readyState |-> "none", onmessage |-> "none", consumer |-> "none",
   exit |-> Unresolved, exitCode |-> Unresolved, sink |-> <<>>, queue |-> <<>>]

(* the boot code, lines 308-416: its WebSocket and the server-ready event *)
NotBooted ==
  [state |-> "none", readyState |-> "none", serverReady |-> "none",
   retry |-> FALSE, invoked |-> {}, payload |-> <<>>,
   fallback |-> FALSE, previews |-> FALSE]

(* eventListeners, line 16 *)
EventNames == {"file-change", "preview-message", "server-ready"}
Callbacks == {"cb1", "cb2"}
NoListeners == [e \in EventNames |-> <<>>]

(* the last message the handler of the boot code was called with, and the *)
(* listeners it called                                                    *)
NoMessage == [socket |-> 0, data |-> <<>>, invoked |-> {}, alert |-> FALSE]

ReadyState(s) == IF s = SpawnSocket THEN spawned.readyState ELSE boot.readyState

(* ws.send (line 113) to a connection of the facade; a browser WebSocket  *)
(* that was closed by ws.close() delivers no message                      *)
Sent(o, s) ==
  IF o.bcast # <<>> /\ s \in o.bcast[1].to /\ ReadyState(s) = "open"
  THEN <<o.bcast[1].data>>
  ELSE <<>>

(* the response to the request of spawn (line 106) and the acceptance of  *)
(* its WebSocket by the server (line 37)                                  *)
WireSpawned ==
  IF spawned.state = "posting" /\ out'.op = "execute" /\ out'.id = FacadeId
  THEN [spawned EXCEPT !.state = "responded", !.response = out'.resp]
  ELSE IF /\ spawned.readyState = "connecting"
          /\ ws[SpawnSocket].state = "fresh"
          /\ ws'[SpawnSocket].state = "open"
  THEN [spawned EXCEPT !.readyState = "open"]
  ELSE spawned

WireBoot ==
  IF /\ boot.readyState = "connecting"
     /\ ws[MainSocket].state = "fresh"
     /\ ws'[MainSocket].state = "open"
  THEN [boot EXCEPT !.readyState = "open"]
  ELSE boot

(* what a step of the server does to the facade *)
Wire ==
  /\ spawned' = WireSpawned
  /\ boot' = WireBoot
  /\ inbox' = [s \in FacadeSockets |-> inbox[s] \o Sent(out', s)]
  /\ \A s \in FacadeSockets : Len(inbox'[s]) <= MaxInFlight
  /\ UNCHANGED <<eventListeners, handled>>

(* ------------------------------ initial ------------------------------- *)
FreshSocket == [state |-> "fresh", previewId |-> "", container |-> NoObj]
(* stdin: what has been written to childProcess.stdin *)
NoChild == [state |-> "none", processId |-> 0, previewId |-> "",
            container |-> NoObj, command |-> "", stdin |-> <<>>]

Init ==
  /\ containers = [i \in PreviewIds |-> NoObj]
  /\ heap = EmptyMap
  /\ ws = [s \in Sockets |-> FreshSocket]
  /\ timers = [s \in Sockets |-> NoTimer]
  /\ files = EmptyMap
  /\ dirs = {<<>>, <<"tmp">>}
  /\ procs = [k \in Children |-> NoChild]
  /\ emptyFor = [i \in PreviewIds |-> 0]
  /\ written = [i \in PreviewIds |-> EmptyMap]
  /\ out = NoOut
  /\ spawned = NoProcess
  /\ boot = NotBooted
  /\ eventListeners = NoListeners
  /\ inbox = [s \in FacadeSockets |-> <<>>]
  /\ handled = NoMessage

(* the time the client set of the registered container has been empty,    *)
(* counted up to Grace + 1; an observer of lines 91-100, not program state *)
EmptyCap == Grace + 1

EmptyForNext(c2, h2) ==
  [i \in PreviewIds |->
     IF c2[i] = NoObj THEN 0
     ELSE IF h2[c2[i]].clients # {} THEN 0
     ELSE IF containers[i] = c2[i] /\ heap[containers[i]].clients = {}
          THEN emptyFor[i]
          ELSE 0]

(* the content of the latest successful write to each path string in the  *)
(* container now registered; an observer of line 140, not program state   *)
WrittenNext(c2) ==
  [i \in PreviewIds |-> IF c2[i] = containers[i] THEN written[i] ELSE EmptyMap]

Resp(status, body) == [status |-> status, body |-> body]

Out(op, id, arg, resp, bcast) ==
  [op |-> op, id |-> id, arg |-> arg, resp |-> resp, bcast |-> bcast]

(* --------------------------- wss 'connection' ------------------------- *)
(* lines 37-57; socket slot s is free for a new connection once the       *)
(* connection it held has closed and no timer of its handler is pending   *)
RejectKeeping(w, s) ==
  [w EXCEPT ![s] = [state |-> "open", previewId |-> "", container |-> NoObj]]

(* lines 41-44: ws.close() and return; no handler is registered for the   *)
(* connection, whose socket slot is free again                            *)
Reject(w, s) == [w EXCEPT ![s] = FreshSocket]

Connect(s, previewId) ==
  /\ ws[s].state = "fresh"
  /\ IF previewId = ""
     THEN /\ ws' = Reject(ws, s)
          /\ out' = Out("connect", previewId, <<s>>, NoResp, NoBroadcast)
          /\ UNCHANGED <<containers, heap, timers, files, dirs, procs, emptyFor, written>>
     ELSE /\ Registered(previewId) \/ MkdirOk(files, ContainerDir(previewId))
          /\ LET o == GetOrCreateObj(previewId)
                 h1 == GetOrCreateHeap(previewId)
                 h2 == [h1 EXCEPT ![o].clients = @ \cup {s}]
                 c2 == [containers EXCEPT ![previewId] = o]
                 w2 == [ws EXCEPT ![s] = [state |-> "open", previewId |-> previewId,
                                          container |-> o]]
             IN /\ containers' = c2
                /\ ws' = w2
                /\ heap' = Collect(h2, c2, w2, procs)
                /\ dirs' = GetOrCreateDirs(previewId)
                /\ emptyFor' = EmptyForNext(c2, h2)
                /\ written' = WrittenNext(c2)
                /\ out' = NoOut
          /\ UNCHANGED <<timers, files, procs>>
  /\ Wire

(* ----------------------------- ws 'message' --------------------------- *)
(* lines 59-83 *)
PreviewPathOfFirst(previewId) == <<"", "preview", "s1">>

(* `/preview/${previewId}`, line 76, as the segments between "/" *)
PreviewPath(previewId) == <<"", "preview", previewId>>

MessageEventEcho(c, h, w, previewId, type) ==
  broadcastToContainer(c, h, w, previewId,
    [type |-> "refresh-preview", previewId |-> previewId])

(* lines 60-82: what the handler hands to the hub for a message of the    *)
(* given type; JSON.parse throws on a malformed message, which is caught  *)
MessageEvent(c, h, w, previewId, type) ==
  IF type = "file-change"
  THEN broadcastToContainer(c, h, w, previewId,
         [type |-> "refresh-preview", previewId |-> previewId])
  ELSE IF type = "preview-ready"
  THEN broadcastToContainer(c, h, w, previewId,
         [type |-> "preview-ready", previewId |-> previewId,
          url |-> PreviewPath(previewId)])
  ELSE NoBroadcast

(* the first entry of arg is the connection the message came in on *)
Message(s, type) ==
  /\ ws[s].state = "open"
  /\ LET previewId == ws[s].previewId
     IN out' = Out("message", previewId, <<s, type>>, NoResp,
                   MessageEvent(containers, heap, ws, previewId, type))
  /\ UNCHANGED <<containers, heap, ws, timers, files, dirs, procs, emptyFor, written>>
  /\ Wire

(* ------------------------------ ws 'close' ---------------------------- *)
(* the connection leaves the OPEN state before its 'close' event is       *)
(* emitted (readyState CLOSING, line 112)                                 *)
BeginClose(s) ==
  /\ ws[s].state = "open"
  /\ ws' = [ws EXCEPT ![s].state = "closing"]
  /\ out' = NoOut
  /\ UNCHANGED <<containers, heap, timers, files, dirs, procs, emptyFor, written>>
  /\ Wire

CloseKilling(s) ==
  /\ ws[s].state \in {"open", "closing"}
  /\ LET o == ws[s].container
         h2 == [heap EXCEPT ![o].clients = @ \ {s}, ![o].processes = EmptyMap]
         p2 == [k \in Children |->
                  IF procs[k].state = "running" /\ procs[k].container = o
                  THEN NoChild ELSE procs[k]]
         w2 == [ws EXCEPT ![s] = IF h2[o].clients = {}
                                  THEN [state |-> "closed",
                                        previewId |-> ws[s].previewId,
                                        container |-> NoObj]
                                  ELSE FreshSocket]
     IN /\ ws' = w2
        /\ procs' = p2
        /\ heap' = Collect(h2, containers, w2, p2)
        /\ timers' = [timers EXCEPT ![s] =
                        IF h2[o].clients = {} THEN Grace ELSE NoTimer]
        /\ emptyFor' = EmptyForNext(containers, h2)
        /\ out' = NoOut
  /\ UNCHANGED <<containers, files, dirs, written>>
  /\ Wire

(* lines 85-101 *)
Close(s) ==
  /\ ws[s].state \in {"open", "closing"}
  /\ LET o == ws[s].container
         h2 == [heap EXCEPT ![o].clients = @ \ {s}]
         w2 == [ws EXCEPT ![s] = IF h2[o].clients = {}
                                  THEN [state |-> "closed",
                                        previewId |-> ws[s].previewId,
                                        container |-> NoObj]
                                  ELSE FreshSocket]
     IN /\ ws' = w2
        /\ heap' = Collect(h2, containers, w2, procs)
        /\ timers' = [timers EXCEPT ![s] =
                        IF h2[o].clients = {} THEN Grace ELSE NoTimer]
        /\ emptyFor' = EmptyForNext(containers, h2)
        /\ out' = NoOut
  /\ UNCHANGED <<containers, files, dirs, procs, written>>
  /\ Wire

(* the callback of setTimeout, lines 93-99 *)
CleanupDue(c, h, previewId) ==
  c[previewId] # NoObj /\ h[c[previewId]].clients = {}

TimerFire(s) ==
  /\ timers[s] = 0
  /\ LET previewId == ws[s].previewId
         c2 == IF CleanupDue(containers, heap, previewId)
               THEN [containers EXCEPT ![previewId] = NoObj]
               ELSE containers
     IN /\ containers' = c2
        /\ heap' = RenameHeap(heap, c2, ws, procs)
        /\ procs' = RenameProcs(c2, procs)
        /\ emptyFor' = EmptyForNext(c2, heap)
        /\ written' = WrittenNext(c2)
        /\ out' = NoOut
  /\ timers' = [timers EXCEPT ![s] = NoTimer]
  /\ ws' = [ws EXCEPT ![s] = FreshSocket]
  /\ UNCHANGED <<files, dirs>>
  /\ Wire

(* 150 s pass; a timer whose delay has run out fires first *)
Tick ==
  /\ \A s \in Sockets : timers[s] # 0
  /\ timers' = [s \in Sockets |-> IF timers[s] = NoTimer THEN NoTimer
                                  ELSE timers[s] - 1]
  /\ emptyFor' = [i \in PreviewIds |->
                    IF CleanupDue(containers, heap, i) /\ emptyFor[i] < EmptyCap
                    THEN emptyFor[i] + 1 ELSE emptyFor[i]]
  /\ out' = NoOut
  /\ UNCHANGED <<containers, heap, ws, files, dirs, procs, written>>
  /\ Wire

(* ------------------- POST /api/files/write/:previewId ----------------- *)
(* lines 120-157; an exception of createContainer is answered with 500 by *)
(* the framework                                                          *)
WriteInvalidPathOnly(filePath, content) == filePath = EmptyPath

(* line 124 *)
WriteInvalid(filePath, content) == filePath = EmptyPath \/ content = Undefined

WriteEventNoPath(previewId, filePath) ==
  [type |-> "file-change", previewId |-> previewId, path |-> EmptyPath]

(* lines 146-150 *)
WriteEvent(previewId, filePath) ==
  [type |-> "file-change", previewId |-> previewId, path |-> filePath]

Write(previewId, filePath, content) ==
  /\ IF WriteInvalid(filePath, content)
     THEN /\ out' = Out("write", previewId, <<filePath, content>>,
                        Resp(400, [error |-> "Missing required parameters"]),
                        NoBroadcast)
          /\ UNCHANGED <<containers, heap, ws, timers, files, dirs, procs, emptyFor, written>>
     ELSE IF ~Registered(previewId) /\ ~MkdirOk(files, ContainerDir(previewId))
     THEN /\ out' = Out("write", previewId, <<filePath, content>>,
                        Resp(500, [error |-> "mkdir"]), NoBroadcast)
          /\ UNCHANGED <<containers, heap, ws, timers, files, dirs, procs, emptyFor, written>>
     ELSE LET o == GetOrCreateObj(previewId)
              h1 == GetOrCreateHeap(previewId)
              d1 == GetOrCreateDirs(previewId)
              c2 == [containers EXCEPT ![previewId] = o]
              full == PathJoin(h1[o].dir, filePath)
              dirPath == Dirname(full)
              mkOk == MkdirOk(files, dirPath)
              d2 == IF mkOk THEN MkdirDirs(d1, dirPath) ELSE d1
              ok == mkOk /\ WriteFileOk(d2, full)
              h2 == IF ok THEN [h1 EXCEPT ![o].files = CacheSet(@, filePath, content)]
                    ELSE h1
          IN /\ containers' = c2
             /\ heap' = Collect(h2, c2, ws, procs)
             /\ dirs' = d2
             /\ files' = IF ok THEN MapSet(files, full, content) ELSE files
             /\ emptyFor' = EmptyForNext(c2, h2)
             /\ written' = IF ok
                           THEN [WrittenNext(c2) EXCEPT ![previewId] =
                                   MapSet(@, filePath, content)]
                           ELSE WrittenNext(c2)
             /\ out' = IF ok
                       THEN Out("write", previewId, <<filePath, content>>,
                                Resp(200, [success |-> TRUE]),
                                broadcastToContainer(c2, h2, ws, previewId,
                                  WriteEvent(previewId, filePath)))
                       ELSE Out("write", previewId, <<filePath, content>>,
                                Resp(500, [error |-> "write"]), NoBroadcast)
             /\ UNCHANGED <<ws, timers, procs>>
  /\ Wire

(* -------------------- GET /api/files/read/:previewId ------------------ *)
(* lines 159-191 *)
ReadResp(previewId, filePath) ==
  IF filePath = EmptyPath
  THEN Resp(400, [error |-> "Missing path parameter"])
  ELSE IF ~Registered(previewId)
  THEN Resp(404, [error |-> "Container not found"])
  ELSE LET container == heap[containers[previewId]]
           fullPath == PathJoin(container.dir, filePath)
       IN IF filePath \in DOMAIN container.files
          THEN Resp(200, [content |-> container.files[filePath]])
          ELSE IF ExistsSync(files, dirs, fullPath)
          THEN IF fullPath \in DOMAIN files
               THEN Resp(200, [content |-> files[fullPath]])
               ELSE Resp(500, [error |-> "EISDIR"])
          ELSE Resp(404, [error |-> "File not found"])

ReadFills(previewId, filePath) ==
  /\ filePath # EmptyPath
  /\ Registered(previewId)
  /\ filePath \notin DOMAIN heap[containers[previewId]].files
  /\ PathJoin(heap[containers[previewId]].dir, filePath) \in DOMAIN files

Read(previewId, filePath) ==
  /\ out' = Out("read", previewId, <<filePath>>, ReadResp(previewId, filePath),
                NoBroadcast)
  /\ heap' = IF ReadFills(previewId, filePath)
             THEN [heap EXCEPT ![containers[previewId]].files =
                     CacheSet(@, filePath,
                              files[PathJoin(heap[containers[previewId]].dir, filePath)])]
             ELSE heap
  /\ UNCHANGED <<containers, ws, timers, files, dirs, procs, emptyFor, written>>
  /\ Wire

(* ---------------------- POST /api/execute/:previewId ------------------ *)
(* uuidv4(): an identifier that is not in use *)
UsedUuids ==
  {procs[k].processId : k \in {j \in Children : procs[j].state = "running"}}
    \cup UNION {DOMAIN heap[o].processes : o \in DOMAIN heap}

uuidv4Fixed == CHOOSE u \in Uuids : \A v \in Uuids : u <= v

uuidv4 == CHOOSE u \in Uuids \ UsedUuids : \A v \in Uuids \ UsedUuids : u <= v

FreeChildren(kids) == {k \in kids : procs[k].state = "none"}

(* exec() runs the command line in a shell: the shell exits with the      *)
(* status of the command, and with 127 when the command is not found      *)
Commands == {"true", "false", "nosuchcmd"}
NotFound == {"nosuchcmd"}

ExitStatus(command) ==
  IF command = "true" THEN 0 ELSE IF command = "false" THEN 1 ELSE 127

Outcomes(command) ==
  {[code |-> ExitStatus(command), signal |-> ""],
   [code |-> Null, signal |-> "SIGTERM"]}

(* lines 194-272; the child that exec starts is the first free one of kids *)
Execute(previewId, command, cwd, kids) ==
  /\ IF command = ""
     THEN /\ out' = Out("execute", previewId, <<command>>,
                        Resp(400, [error |-> "Missing command parameter"]),
                        NoBroadcast)
          /\ UNCHANGED <<containers, heap, ws, timers, files, dirs, procs, emptyFor, written>>
     ELSE IF ~Registered(previewId) /\ ~MkdirOk(files, ContainerDir(previewId))
     THEN /\ out' = Out("execute", previewId, <<command>>,
                        Resp(500, [error |-> "mkdir"]), NoBroadcast)
          /\ UNCHANGED <<containers, heap, ws, timers, files, dirs, procs, emptyFor, written>>
     ELSE LET o == GetOrCreateObj(previewId)
              h1 == GetOrCreateHeap(previewId)
              d1 == GetOrCreateDirs(previewId)
              c2 == [containers EXCEPT ![previewId] = o]
              processId == uuidv4
              workingDir == PathJoin(h1[o].dir, cwd)
          IN IF ~MkdirOk(files, workingDir)
             THEN /\ containers' = c2
                  /\ heap' = Collect(h1, c2, ws, procs)
                  /\ dirs' = d1
                  /\ emptyFor' = EmptyForNext(c2, h1)
                  /\ written' = WrittenNext(c2)
                  /\ out' = Out("execute", previewId, <<command>>,
                                Resp(500, [error |-> "mkdir"]), NoBroadcast)
                  /\ UNCHANGED <<ws, timers, files, procs>>
             ELSE /\ FreeChildren(kids) # {}
                  /\ LET k == CHOOSE j \in FreeChildren(kids) :
                                \A j2 \in FreeChildren(kids) : j <= j2
                         p2 == [procs EXCEPT ![k] =
                                  [state |-> "running", processId |-> processId,
                                   previewId |-> previewId, container |-> o,
                                   command |-> command, stdin |-> <<>>]]
                         h2 == [h1 EXCEPT ![o].processes = MapSet(@, processId, k)]
                     IN /\ containers' = c2
                        /\ procs' = p2
                        /\ heap' = Collect(h2, c2, ws, p2)
                        /\ dirs' = MkdirDirs(d1, workingDir)
                        /\ emptyFor' = EmptyForNext(c2, h2)
                        /\ written' = WrittenNext(c2)
                        /\ out' = Out("execute", previewId, <<command>>,
                                      Resp(200, [processId |-> processId]),
                                      NoBroadcast)
                  /\ UNCHANGED <<ws, timers, files>>
  /\ Wire

ProcessOutputAsStdout(k, stream, chunk) ==
  /\ procs[k].state = "running"
  /\ out' = Out("output", procs[k].previewId, <<k, stream, chunk>>, NoResp,
                broadcastToContainer(containers, heap, ws, procs[k].previewId,
                  [type |-> "process-output", previewId |-> procs[k].previewId,
                   processId |-> procs[k].processId, output |-> chunk,
                   stream |-> "stdout"]))
  /\ UNCHANGED <<containers, heap, ws, timers, files, dirs, procs, emptyFor, written>>
  /\ Wire

(* childProcess.stdout/stderr 'data', lines 247-267: a chunk arrives on a *)
(* stream of a child whose streams have not closed; the callback of exec  *)
(* runs after they have closed                                            *)
ProcessOutput(k, stream, chunk) ==
  /\ procs[k].state = "running"
  /\ out' = Out("output", procs[k].previewId, <<k, stream, chunk>>, NoResp,
                broadcastToContainer(containers, heap, ws, procs[k].previewId,
                  [type |-> "process-output", previewId |-> procs[k].previewId,
                   processId |-> procs[k].processId, output |-> chunk,
                   stream |-> stream]))
  /\ UNCHANGED <<containers, heap, ws, timers, files, dirs, procs, emptyFor, written>>
  /\ Wire

(* the callback of exec, lines 221-234: error is null exactly when the    *)
(* child exited with status 0 and no signal; error.code is the status, or *)
(* null for a child ended by a signal                                     *)
ExitCodeFlag(outcome) ==
  IF outcome.code = 0 /\ outcome.signal = "" THEN 0 ELSE 1

ExitCode(outcome) ==
  IF outcome.code = 0 /\ outcome.signal = "" THEN 0 ELSE outcome.code

ExecCallbackBroadcastFirst(h, o, processId) ==
  [atBroadcast |-> h,
   after |-> [h EXCEPT ![o].processes = MapDelete(@, processId)]]

(* the two statements of the callback in their order: the handle is       *)
(* deleted (line 223), then broadcastToContainer is called (line 226)     *)
ExecCallback(h, o, processId) ==
  LET h2 == [h EXCEPT ![o].processes = MapDelete(@, processId)]
  IN [atBroadcast |-> h2, after |-> h2]

(* the fourth entry of arg is the process set of the container at the     *)
(* call of broadcastToContainer                                           *)
ProcessExit(k, outcome) ==
  /\ procs[k].state = "running"
  /\ outcome \in Outcomes(procs[k].command)
  /\ LET o == procs[k].container
         processId == procs[k].processId
         previewId == procs[k].previewId
         e == ExecCallback(heap, o, processId)
         h2 == e.after
         p2 == [procs EXCEPT ![k] = NoChild]
     IN /\ procs' = RenameProcs(containers, p2)
        /\ heap' = RenameHeap(h2, containers, ws, p2)
        /\ out' = Out("exit", previewId,
                      <<k, processId, outcome, DOMAIN e.atBroadcast[o].processes>>,
                      NoResp,
                      broadcastToContainer(containers, e.atBroadcast, ws, previewId,
                        [type |-> "process-completed", previewId |-> previewId,
                         processId |-> processId,
                         exitCode |-> ExitCode(outcome)]))
  /\ UNCHANGED <<containers, ws, timers, files, dirs, emptyFor, written>>
  /\ Wire

(* ------------------------- the facade: spawn -------------------------- *)
server == <<containers, heap, ws, timers, files, dirs, procs, emptyFor, written>>

(* Response.ok *)
ResponseOk(resp) == resp.status \in 200..299

(* lines 105-114: fetch sends the request; the server's step answers it *)
SpawnRequest(command) ==
  /\ spawned.state = "none"
  /\ spawned' = [spawned EXCEPT !.state = "posting", !.command = command]
  /\ out' = NoOut
  /\ UNCHANGED <<server, boot, eventListeners, inbox, handled>>

(* lines 116-252: the response has arrived; the WebSocket is constructed  *)
(* and the executor of the promise exit installs its handler (line 239)   *)
SpawnResponse ==
  /\ spawned.state = "responded"
  /\ spawned' =
       IF ~ResponseOk(spawned.response)
       THEN [spawned EXCEPT !.state = "failed", !.response = NoResp]
       ELSE [spawned EXCEPT !.state = "spawned", !.response = NoResp,
                            !.processId = spawned.response.body.processId,
                            !.readyState = "connecting", !.onmessage = "exit"]
  /\ out' = NoOut
  /\ UNCHANGED <<server, boot, eventListeners, inbox, handled>>

(* data.processId === processId && data.type === type *)
ForProcess(p, data, type) ==
  /\ "processId" \in DOMAIN data
  /\ data.processId = p.processId
  /\ data.type = type

(* the chunks a consumer holds, the latest MaxInFlight of them *)
Keep(seq) == IF Len(seq) > MaxInFlight THEN Tail(seq) ELSE seq

(* resolve() of a promise settles it once *)
Resolve(promise, value) == IF promise = Unresolved THEN value ELSE promise

(* lines 131-146 *)
PipeHandler(p, data) ==
  LET p1 == IF ForProcess(p, data, "process-output")
            THEN [p EXCEPT !.sink = Keep(Append(@, data.output))]
            ELSE p
  IN IF ForProcess(p, data, "process-completed")
     THEN [p1 EXCEPT !.readyState = "closed"]
     ELSE p1

(* lines 150-161 *)
ExitCodeHandler(p, data) ==
  IF ForProcess(p, data, "process-completed")
  THEN [p EXCEPT !.exitCode = Resolve(@, data.exitCode), !.readyState = "closed"]
  ELSE p

(* lines 170-186 and 196-212 *)
StreamHandler(p, data) ==
  LET p1 == IF ForProcess(p, data, "process-output")
            THEN [p EXCEPT !.queue = Keep(Append(@, data.output))]
            ELSE p
  IN IF ForProcess(p, data, "process-completed")
     THEN [p1 EXCEPT !.readyState = "closed"]
     ELSE p1

(* lines 239-250 *)
ExitHandler(p, data) ==
  IF ForProcess(p, data, "process-completed")
  THEN [p EXCEPT !.exit = Resolve(@, data.exitCode), !.readyState = "closed"]
  ELSE p

(* ws.onmessage of the WebSocket of spawn: the handler assigned last *)
OnMessage(p, data) ==
  IF p.onmessage = "exit" THEN ExitHandler(p, data)
  ELSE IF p.onmessage = "pipe" THEN PipeHandler(p, data)
  ELSE IF p.onmessage = "exitCode" THEN ExitCodeHandler(p, data)
  ELSE StreamHandler(p, data)

(* a message arrives on the WebSocket of spawn; ws.close() ends delivery *)
ReceiveSpawn ==
  /\ spawned.readyState = "open"
  /\ inbox[SpawnSocket] # <<>>
  /\ LET p2 == OnMessage(spawned, Head(inbox[SpawnSocket]))
     IN /\ spawned' = p2
        /\ inbox' = [inbox EXCEPT ![SpawnSocket] =
                       IF p2.readyState = "closed" THEN <<>> ELSE Tail(@)]
  /\ out' = NoOut
  /\ UNCHANGED <<server, boot, eventListeners, handled>>

(* output.pipeTo, lines 128-164: the handler of line 131 is replaced at   *)
(* once by that of line 150, in the executor of the promise exitCode      *)
PipeTo ==
  /\ spawned.state = "spawned"
  /\ spawned.consumer = "none"
  /\ LET p1 == [spawned EXCEPT !.onmessage = "pipe"]
         p2 == [p1 EXCEPT !.onmessage = "exitCode"]
     IN spawned' = [p2 EXCEPT !.consumer = "pipeTo"]
  /\ out' = NoOut
  /\ UNCHANGED <<server, boot, eventListeners, inbox, handled>>

(* output.tee and output.getReader, lines 167-216: start() of the stream  *)
(* runs in the constructor and installs its handler                       *)
Consumers == {"tee", "getReader"}

Attach(consumer) ==
  /\ spawned.state = "spawned"
  /\ spawned.consumer = "none"
  /\ spawned' = [spawned EXCEPT !.onmessage = "stream", !.consumer = consumer]
  /\ out' = NoOut
  /\ UNCHANGED <<server, boot, eventListeners, inbox, handled>>

(* input.getWriter().write(chunk), lines 220-237: with the WebSocket open *)
(* a process-input message is sent, which the server's handler of         *)
(* 'message' (server.js lines 59-83) receives; otherwise the chunk is     *)
(* dropped                                                                *)
WriteInput(chunk) ==
  /\ spawned.state = "spawned"
  /\ spawned.readyState = "open"
  /\ Message(SpawnSocket, "process-input")

(* ------------------------- the facade: files -------------------------- *)
NotRoutedOk == Resp(200, [success |-> TRUE])

(* the server registers routes for write, read, execute and preview only  *)
(* (server.js lines 120, 159, 194, 275, 324): express answers any other   *)
(* request with 404 and runs no handler                                   *)
NotRouted == Resp(404, [error |-> "Cannot POST"])

(* fs.rm rejects when the response is not ok, index.ts lines 89-93 *)
RmResult(resp) == IF ResponseOk(resp) THEN "removed" ELSE "Failed to remove"

(* fs.rm, index.ts lines 82-94, with the server's answer to its request   *)
(* POST /api/files/rm/:previewId                                          *)
Rm(previewId, path, recursive) ==
  /\ out' = Out("rm", previewId, <<path, recursive>>, NotRouted, NoBroadcast)
  /\ UNCHANGED <<containers, heap, ws, timers, files, dirs, procs, emptyFor, written>>
  /\ Wire

(* ------------------------- the facade: events ------------------------- *)
Range(seq) == {seq[n] : n \in DOMAIN seq}

(* flyBackendPreviewUrl, line 331, as the segments between "/" *)
PreviewUrl(previewId) ==
  <<"https:", "", "create-fly-backend.fly.dev", "preview", previewId>>

ServerReadyPayload ==
  [port |-> 4321, url |-> PreviewUrl(FacadeId), previewId |-> FacadeId]

EmitServerReadyOnce(b, listeners) ==
  IF Len(listeners["server-ready"]) > 0
  THEN [b EXCEPT !.serverReady = "delivered", !.retry = FALSE,
                 !.invoked = Range(listeners["server-ready"]),
                 !.payload = ServerReadyPayload]
  ELSE [b EXCEPT !.serverReady = "undelivered", !.retry = FALSE]

(* emitServerReady, lines 338-356: the listeners registered now are       *)
(* called; with none, setTimeout(emitServerReady, 1000)                   *)
EmitServerReady(b, listeners) ==
  IF Len(listeners["server-ready"]) > 0
  THEN [b EXCEPT !.serverReady = "delivered", !.retry = FALSE,
                 !.invoked = Range(listeners["server-ready"]),
                 !.payload = ServerReadyPayload]
  ELSE [b EXCEPT !.serverReady = "undelivered", !.retry = TRUE]

(* lines 308-416, the boot code up to the return of the container: the    *)
(* WebSocket is constructed, emitServerReady runs for the first time and  *)
(* the fallback of line 362 is scheduled                                  *)
Boot ==
  /\ boot.state = "none"
  /\ boot' = EmitServerReady([boot EXCEPT !.state = "booted",
                                          !.readyState = "connecting",
                                          !.fallback = TRUE],
                             eventListeners)
  /\ out' = NoOut
  /\ UNCHANGED <<server, spawned, eventListeners, inbox, handled>>

(* the callback of setTimeout(emitServerReady, 1000), line 354 *)
RetryServerReady ==
  /\ boot.retry
  /\ boot' = EmitServerReady(boot, eventListeners)
  /\ out' = NoOut
  /\ UNCHANGED <<server, spawned, eventListeners, inbox, handled>>

(* the callback of line 362: it adds a preview to the store when the      *)
(* store has none, and calls no listener                                  *)
ForcePreview ==
  /\ boot.fallback
  /\ boot' = [boot EXCEPT !.fallback = FALSE, !.previews = TRUE]
  /\ out' = NoOut
  /\ UNCHANGED <<server, spawned, eventListeners, inbox, handled>>

(* on, lines 256-264: push onto the array of the event, which is created  *)
(* empty when the event has none                                          *)
on(listeners, event, callback) ==
  [listeners EXCEPT ![event] = Append(@, callback)]

offAll(listeners, event, callback) == [listeners EXCEPT ![event] = <<>>]

(* off, lines 266-272: filter((cb) => cb !== callback) *)
off(listeners, event, callback) ==
  [listeners EXCEPT ![event] =
     LET Other(cb) == cb # callback IN SelectSeq(@, Other)]

(* a call of on; the container is handed out by the boot code *)
On(event, callback) ==
  /\ boot.state = "booted"
  /\ Len(eventListeners[event]) < MaxListeners
  /\ eventListeners' = on(eventListeners, event, callback)
  /\ out' = NoOut
  /\ UNCHANGED <<server, spawned, boot, inbox, handled>>

(* a call of off *)
Off(event, callback) ==
  /\ boot.state = "booted"
  /\ eventListeners' = off(eventListeners, event, callback)
  /\ out' = NoOut
  /\ UNCHANGED <<server, spawned, boot, inbox, handled>>

(* ws.onmessage of the boot code, lines 386-397: the listeners called     *)
(* with the message                                                       *)
Forwarded(listeners, data) ==
  {<<"preview-message", cb>> : cb \in Range(listeners["preview-message"])}

PreviewErrors == {"PREVIEW_UNCAUGHT_EXCEPTION", "PREVIEW_UNHANDLED_REJECTION"}

(* lines 386-413 *)
ReceiveMain ==
  /\ boot.readyState = "open"
  /\ inbox[MainSocket] # <<>>
  /\ LET message == Head(inbox[MainSocket])
     IN handled' = [socket |-> MainSocket, data |-> message,
                    invoked |-> Forwarded(eventListeners, message),
                    alert |-> message.type \in PreviewErrors]
  /\ inbox' = [inbox EXCEPT ![MainSocket] = Tail(@)]
  /\ out' = NoOut
  /\ UNCHANGED <<server, spawned, boot, eventListeners>>

(* --------------------------- specifications -------------------------- *)
OneId == {"s1"}
OneSocket == {1}
OneChild == {1}
OnePath == {<<"a">>}
OneContent == {"x"}
OneCommand == {"true"}
OneCwd == {DefaultCwd}
OneMsg == {"file-change"}
OneStream == {"stdout"}
Success == {[code |-> 0, signal |-> ""]}

(* Spec: the registry and the hub with two identifiers under connects,   *)
(* closes and time; the requests write one file and run one command in s1. *)
Next ==
  \/ \E s \in Sockets, i \in PreviewIds \cup {""} : Connect(s, i)
  \/ \E s \in Sockets, t \in OneMsg : Message(s, t)
  \/ \E s \in Sockets : BeginClose(s)
  \/ \E s \in Sockets : Close(s)
  \/ \E s \in Sockets : TimerFire(s)
  \/ Tick
  \/ \E i \in OneId, p \in OnePath, c \in OneContent : Write(i, p, c)
  \/ \E i \in OneId, p \in OnePath : Read(i, p)
  \/ \E i \in OneId, c \in OneCommand, d \in OneCwd : Execute(i, c, d, OneChild)
  \/ \E k \in OneChild, st \in OneStream, ch \in Chunks : ProcessOutput(k, st, ch)
  \/ \E k \in OneChild, oc \in Success : ProcessExit(k, oc)

Spec == Init /\ [][Next]_vars

(* SpecFiles: the file endpoints and the working directory of execute in  *)
(* session s1, with paths that stay in its directory and paths that leave *)
(* it for the directory of s2.                                            *)
Paths == {<<"d", "a">>, <<"..", "s2", "a">>}
Cwds == {DefaultCwd, <<"d", "a">>, <<"..", "s2">>}
RmPaths == {<<"d">>}

NextFiles ==
  \/ \E s \in OneSocket, i \in OneId : Connect(s, i)
  \/ \E s \in OneSocket, t \in OneMsg : Message(s, t)
  \/ \E s \in OneSocket : BeginClose(s)
  \/ \E s \in OneSocket : Close(s)
  \/ \E s \in OneSocket : TimerFire(s)
  \/ Tick
  \/ \E i \in OneId, p \in Paths, c \in Contents : Write(i, p, c)
  \/ \E i \in OneId, p \in Paths : Read(i, p)
  \/ \E i \in OneId, p \in RmPaths, r \in BOOLEAN : Rm(i, p, r)
  \/ \E i \in OneId, c \in OneCommand, d \in Cwds : Execute(i, c, d, OneChild)
  \/ \E k \in OneChild, st \in OneStream, ch \in Chunks : ProcessOutput(k, st, ch)
  \/ \E k \in OneChild, oc \in Success : ProcessExit(k, oc)

SpecFiles == Init /\ [][NextFiles]_vars

(* SpecProc: the execute endpoint in session s1 with concurrent children, *)
(* every command and every outcome; the file requests are invalid ones:   *)
(* a write without path or without content, a read without path.          *)
AllOutcomes == UNION {Outcomes(c) : c \in Commands}
InvalidWrites == {<<EmptyPath, "x">>, <<<<"a">>, Undefined>>}

NextProc ==
  \/ \E s \in OneSocket, i \in OneId : Connect(s, i)
  \/ \E s \in OneSocket, t \in OneMsg : Message(s, t)
  \/ \E s \in OneSocket : BeginClose(s)
  \/ \E s \in OneSocket : Close(s)
  \/ \E s \in OneSocket : TimerFire(s)
  \/ Tick
  \/ \E i \in OneId, w \in InvalidWrites : Write(i, w[1], w[2])
  \/ \E i \in OneId, p \in {EmptyPath} : Read(i, p)
  \/ \E i \in OneId, c \in Commands \cup {""}, d \in OneCwd : Execute(i, c, d, Children)
  \/ \E k \in Children, st \in Streams, ch \in Chunks : ProcessOutput(k, st, ch)
  \/ \E k \in Children, oc \in AllOutcomes : ProcessExit(k, oc)

SpecProc == Init /\ [][NextProc]_vars

(* SpecSpawn: one spawn of the facade in session FacadeId: its request,   *)
(* its WebSocket, the consumers of its output, and the server under it.   *)
(* The connection of spawn is closed by ws.close() only.                  *)
SpawnCommands == {"true", "false"}
ExitOutcomes == {[code |-> 0, signal |-> ""], [code |-> 1, signal |-> ""]}

(* the server's side of the facade's WebSocket and request *)
SpawnConnect ==
  /\ spawned.readyState = "connecting"
  /\ Connect(SpawnSocket, FacadeId)

SpawnBeginClose ==
  /\ spawned.readyState = "closed"
  /\ BeginClose(SpawnSocket)

SpawnClose ==
  /\ spawned.readyState = "closed"
  /\ Close(SpawnSocket)

SpawnExecute ==
  /\ spawned.state = "posting"
  /\ Execute(FacadeId, spawned.command, DefaultCwd, OneChild)

NextSpawn ==
  \/ \E c \in SpawnCommands : SpawnRequest(c)
  \/ SpawnResponse
  \/ ReceiveSpawn
  \/ PipeTo
  \/ \E c \in Consumers : Attach(c)
  \/ SpawnConnect
  \/ \E ch \in Chunks : WriteInput(ch)
  \/ SpawnBeginClose
  \/ SpawnClose
  \/ TimerFire(SpawnSocket)
  \/ Tick
  \/ \E p \in OnePath, c \in OneContent : Write(FacadeId, p, c)
  \/ \E p \in OnePath : Read(FacadeId, p)
  \/ SpawnExecute
  \/ \E k \in OneChild, st \in OneStream, ch \in Chunks : ProcessOutput(k, st, ch)
  \/ \E k \in OneChild, oc \in ExitOutcomes : ProcessExit(k, oc)

SpecSpawn == Init /\ [][NextSpawn]_vars

(* SpecEvents: the boot code of the facade, its listeners and the         *)
(* file-change messages of session FacadeId on its WebSocket, within the  *)
(* first 150 s.  A callback of setTimeout runs in the end.                *)
MainConnect ==
  /\ boot.readyState = "connecting"
  /\ Connect(MainSocket, FacadeId)

Subscriptions ==
  {<<"file-change", "cb1">>, <<"preview-message", "cb2">>,
   <<"server-ready", "cb1">>, <<"server-ready", "cb2">>}

NextEvents ==
  \/ Boot
  \/ RetryServerReady
  \/ ForcePreview
  \/ \E sub \in Subscriptions : On(sub[1], sub[2])
  \/ \E sub \in Subscriptions : Off(sub[1], sub[2])
  \/ ReceiveMain
  \/ MainConnect
  \/ BeginClose(MainSocket)
  \/ Close(MainSocket)
  \/ \E p \in OnePath, c \in OneContent : Write(FacadeId, p, c)

SpecEvents == Init /\ [][NextEvents]_vars /\ WF_vars(RetryServerReady)

(* SpecHub: the hub with two identifiers and the four kinds of inbound    *)
(* message, under connects (with and without an identifier), closes and   *)
(* time.                                                                  *)
NextHub ==
  \/ \E s \in Sockets, i \in PreviewIds \cup {""} : Connect(s, i)
  \/ \E s \in Sockets, t \in MsgTypes : Message(s, t)
  \/ \E s \in Sockets : BeginClose(s)
  \/ \E s \in Sockets : Close(s)
  \/ \E s \in Sockets : TimerFire(s)
  \/ Tick

SpecHub == Init /\ [][NextHub]_vars

(* SpecCache: writes and reads in session s1 that address one file by two *)
(* spellings of its path, "a" and "/a".                                   *)
Spellings == {<<"a">>, <<"", "a">>}

NextCache ==
  \/ \E s \in OneSocket, i \in OneId : Connect(s, i)
  \/ \E s \in OneSocket : BeginClose(s)
  \/ \E s \in OneSocket : Close(s)
  \/ \E s \in OneSocket : TimerFire(s)
  \/ Tick
  \/ \E i \in OneId, p \in Spellings, c \in Contents : Write(i, p, c)
  \/ \E i \in OneId, p \in Spellings : Read(i, p)

SpecCache == Init /\ [][NextCache]_vars

(* ------------------------------ claims -------------------------------- *)
Session(i) == heap[containers[i]]

Live(s) == ws[s].state \in {"open", "closing"}

ConnectStep(s, i) ==
  /\ ws[s].state = "fresh"
  /\ ws'[s].state = "open"
  /\ ws'[s].previewId = i

RequestStep(i) == out'.op \in {"write", "execute"} /\ out'.id = i

(* C1: the registry holds one container per identifier, which every live  *)
(* connection of that identifier shares, and a connect, write or execute  *)
(* on a registered identifier keeps that container: its clients, its file *)
(* cache and its processes are kept, and only the connecting client, the  *)
(* written path or the started process is added.                          *)
C1_OnePerId ==
  /\ \A i \in PreviewIds :
       Registered(i) => containers[i] \in DOMAIN heap /\ Session(i).id = i
  /\ \A s \in Sockets :
       Live(s) => /\ containers[ws[s].previewId] = ws[s].container
                  /\ s \in Session(ws[s].previewId).clients

C1_Reuse ==
  \A i \in PreviewIds :
    Registered(i) =>
      /\ (RequestStep(i) \/ \E s \in Sockets : ConnectStep(s, i)) =>
           /\ containers'[i] = containers[i]
           /\ Session(i).clients \subseteq Session(i)'.clients
           /\ DOMAIN Session(i).files \subseteq DOMAIN Session(i)'.files
           /\ DOMAIN Session(i).processes \subseteq DOMAIN Session(i)'.processes
           /\ \A k \in DOMAIN Session(i).processes :
                Session(i)'.processes[k] = Session(i).processes[k]
      /\ RequestStep(i) => Session(i)'.clients = Session(i).clients
      /\ \A s \in Sockets :
           ConnectStep(s, i) =>
             /\ Session(i)'.clients = Session(i).clients \cup {s}
             /\ Session(i)'.files = Session(i).files
             /\ Session(i)'.processes = Session(i).processes

C1_GetOrCreateReuses == [](C1_OnePerId) /\ [][C1_Reuse]_vars

C1_Witness ==
  /\ out.op = "execute"
  /\ out.resp.status = 200
  /\ Registered("s1")
  /\ Session("s1").clients # {}
  /\ <<"a">> \in DOMAIN Session("s1").files

(* C2: a container leaves the registry only when its client set has been  *)
(* empty for the whole grace period without interruption.                 *)
C2_RemovedOnlyAfterGrace ==
  [][\A i \in PreviewIds :
       (Registered(i) /\ ~Registered(i)') => emptyFor[i] >= Grace]_vars

(* C3: no registered container has had an empty client set for longer     *)
(* than the grace period: it was removed when the grace period ran out.   *)
C3_EmptyLongerThanGraceIsRemoved ==
  \A i \in PreviewIds :
    (Registered(i) /\ Session(i).clients = {}) => emptyFor[i] <= Grace

(* C4: a message handed to the hub carries the identifier of the session  *)
(* of the step that produced it, and it goes to open connections of that  *)
(* session's client set only: to no client of another session and to no   *)
(* client that is closing or closed.                                      *)
C4_BroadcastStaysInSession ==
  \A n \in DOMAIN out.bcast :
    LET b == out.bcast[n]
    IN /\ b.previewId = out.id
       /\ b.data.previewId = out.id
       /\ \A s \in b.to :
            /\ ws[s].state = "open"
            /\ ws[s].previewId = out.id
            /\ Registered(out.id)
            /\ s \in Session(out.id).clients

C4_Witness ==
  /\ out.bcast # <<>>
  /\ out.bcast[1].to # {}
  /\ \E s \in Sockets : ws[s].state = "open" /\ ws[s].previewId # out.id

(* C5: in a registered session, a read of a path that was written in it   *)
(* answers with the content of the latest successful write to that path,  *)
(* the empty content and paths with several segments included.            *)
C5_ReadReturnsLatestWrite ==
  \A i \in PreviewIds :
    \A p \in DOMAIN written[i] :
      ReadResp(i, p) = Resp(200, [content |-> written[i][p]])

C5_Witness ==
  /\ out.op = "read"
  /\ out.resp = Resp(200, [content |-> ""])
  /\ \E p \in DOMAIN written["s1"] : Len(p) > 1 /\ written["s1"][p] = ""
  /\ \E p \in DOMAIN written["s1"] : written["s1"][p] = "x"

(* C6: the step in which a child exits hands exactly one process-completed *)
(* message to the hub, for the child's process identifier and with the     *)
(* status the child exited with, to every open client of the session;      *)
(* after it no process set holds the identifier, and no other step hands   *)
(* over a process-completed message.                                       *)
C6_ExitBroadcastsOnce ==
  /\ out.op = "exit" =>
       LET k == out.arg[1]
           pid == out.arg[2]
           oc == out.arg[3]
       IN /\ Len(out.bcast) = 1
          /\ out.bcast[1].previewId = out.id
          /\ out.bcast[1].data.type = "process-completed"
          /\ out.bcast[1].data.processId = pid
          /\ oc.signal = "" => out.bcast[1].data.exitCode = oc.code
          /\ out.bcast[1].to =
               {s \in Sockets : ws[s].state = "open" /\ ws[s].previewId = out.id}
          /\ \A o \in DOMAIN heap : pid \notin DOMAIN heap[o].processes
          /\ procs[k].state = "none"
  /\ \A n \in DOMAIN out.bcast :
       out.bcast[n].data.type = "process-completed" => out.op = "exit"

C6_Witness ==
  /\ out.op = "exit"
  /\ out.arg[3] = [code |-> 1, signal |-> ""]
  /\ out.bcast[1].to # {}

(* C7: children that run at the same time in one session have different   *)
(* process identifiers, each registered for its own child; a              *)
(* process-output message carries the identifier of the child that        *)
(* produced the chunk, and a process-completed message the identifier of   *)
(* the child that exited and of no child that still runs.                 *)
C7_ConcurrentSpawnsIndependent ==
  /\ \A k1, k2 \in Running(procs) :
       (k1 # k2 /\ procs[k1].previewId = procs[k2].previewId)
         => procs[k1].processId # procs[k2].processId
  /\ \A k \in Running(procs) :
       /\ procs[k].container \in DOMAIN heap
       /\ procs[k].processId \in DOMAIN heap[procs[k].container].processes
       /\ heap[procs[k].container].processes[procs[k].processId] = k
  /\ out.op = "output" =>
       /\ out.bcast[1].data.type = "process-output"
       /\ out.bcast[1].data.processId = procs[out.arg[1]].processId
  /\ out.op = "exit" =>
       /\ out.bcast[1].data.processId = out.arg[2]
       /\ \A k \in Running(procs) :
            procs[k].previewId = out.id => procs[k].processId # out.arg[2]

C7_Witness ==
  /\ out.op = "output"
  /\ Cardinality(Running(procs)) = 2
  /\ out.bcast[1].to # {}

(* C8: every path written in a session resolves to a location under the   *)
(* directory of that session.                                             *)
C8_WritesStayUnderRoot ==
  \A i \in PreviewIds :
    \A p \in DOMAIN written[i] :
      IsPrefix(Session(i).dir, PathJoin(Session(i).dir, p))

(* C9: an execute request for a command that is not found is answered     *)
(* with an error, and no child is registered for such a command.          *)
C9_NotFoundCommandIsError ==
  /\ (out.op = "execute" /\ out.arg[1] \in NotFound) => out.resp.status >= 400
  /\ \A k \in Running(procs) : procs[k].command \notin NotFound

(* C10: a read is answered with 404 only when the path is neither cached  *)
(* nor present under the directory of the session.                        *)
C10_NotFoundOnlyWhenAbsent ==
  \A i \in OneId, p \in Paths :
    ReadResp(i, p).status = 404 =>
      /\ ~ExistsSync(files, dirs, PathJoin(ContainerDir(i), p))
      /\ Registered(i) => p \notin DOMAIN Session(i).files

(* the child that runs the process of spawn has called back *)
Completed(processId) ==
  \A k \in Running(procs) : procs[k].processId # processId

(* C11: once the process of a spawn has completed, the server has accepted *)
(* the WebSocket of the spawn and no message is in flight to it, the       *)
(* promise exit of the spawn (with no consumer attached to its output) is  *)
(* resolved, whichever of completion and subscription came first.          *)
C11_ExitResolvesUnderEveryInterleaving ==
  ( /\ spawned.state = "spawned"
    /\ spawned.consumer = "none"
    /\ spawned.readyState \in {"open", "closed"}
    /\ Completed(spawned.processId)
    /\ inbox[SpawnSocket] = <<>> )
  => spawned.exit # Unresolved

(* the event types of the hub, server.js lines 64-75, 146, 226, 249, 260 *)
HubTypes ==
  {"file-change", "process-output", "process-completed", "preview-ready",
   "refresh-preview"}

(* a step in which the facade handles the message at the head of inbox[s] *)
ReceiveStep(s) == inbox[s] # <<>> /\ Len(inbox'[s]) < Len(inbox[s])

(* C12: when a message of the hub arrives on the WebSocket of the facade, *)
(* a listener registered with on(T, cb) for an event type T of the hub is *)
(* called exactly when the message has type T and is of the facade's      *)
(* session.                                                               *)
C12_ListenersGetTheirEvents ==
  [][ReceiveStep(MainSocket) =>
       LET data == Head(inbox[MainSocket])
       IN \A e \in HubTypes \cap EventNames :
            \A cb \in Range(eventListeners[e]) :
              (<<e, cb>> \in handled'.invoked)
                <=> (data.type = e /\ data.previewId = FacadeId)]_vars

(* C13 as stated: every listener registered for server-ready has been     *)
(* called with the event or a retry of its delivery is pending.           *)
C13_LateListenerIsInvoked ==
  \A cb \in Range(eventListeners["server-ready"]) :
    cb \in boot.invoked \/ boot.retry

C13_Pending ==
  /\ (boot.state = "booted" /\ boot.serverReady # "delivered")
       => (boot.retry /\ boot.invoked = {})
  /\ boot.serverReady = "delivered"
       => /\ ~boot.retry
          /\ boot.invoked # {}
          /\ boot.payload.url = PreviewUrl(FacadeId)

C13_Delivery ==
  /\ (boot.serverReady # "delivered" /\ boot'.serverReady = "delivered")
       => boot'.invoked = Range(eventListeners["server-ready"])
  /\ boot.serverReady = "delivered" => boot'.invoked = boot.invoked

C13_HasListener == boot.state = "booted" /\ eventListeners["server-ready"] # <<>>

(* C13, amended: while server-ready has not been delivered a retry of its *)
(* delivery is pending; the first attempt that finds listeners calls the  *)
(* listeners registered at that moment with the preview URL of the        *)
(* session and ends the retries, and no listener is called later; if from *)
(* some time on a listener stays registered, the event is delivered.      *)
C13_RetriedUntilAListenerExists ==
  /\ []C13_Pending
  /\ [][C13_Delivery]_vars
  /\ (<>[]C13_HasListener => <>(boot.serverReady = "delivered"))

C13_Witness ==
  /\ boot.serverReady = "delivered"
  /\ boot.invoked = {"cb1", "cb2"}

(* a step in which the server handles the close of connection s *)
CloseStep(s) == Live(s) /\ ~Live(s)'

(* C14: the close of a connection takes it out of the client set of its   *)
(* container and leaves every child running with its handle in place; a   *)
(* child that exits later has its handle removed, and its                 *)
(* process-completed message goes to the open clients the session has at  *)
(* that moment.                                                           *)
C14_CloseTerminatesNoProcess ==
  /\ [][\A s \in Sockets :
          CloseStep(s) =>
            /\ procs' = procs
            /\ \A k \in Running(procs) :
                 /\ procs[k].container \in DOMAIN heap'
                 /\ heap'[procs[k].container].processes
                      = heap[procs[k].container].processes
                 /\ s \notin heap'[procs[k].container].clients
            /\ ws[s].container \in DOMAIN heap' =>
                 heap'[ws[s].container].clients = heap[ws[s].container].clients \ {s}]_vars
  /\ [](out.op = "exit" =>
          /\ \A o \in DOMAIN heap : out.arg[2] \notin DOMAIN heap[o].processes
          /\ out.bcast[1].data.type = "process-completed"
          /\ out.bcast[1].to = Recipients(containers, heap, ws, out.id))

C14_Witness ==
  \E k \in Running(procs), s \in Sockets :
    /\ ws[s].state = "closed"
    /\ ws[s].previewId = procs[k].previewId
    /\ heap[procs[k].container].clients = {}
    /\ procs[k].processId \in DOMAIN heap[procs[k].container].processes

(* the directory at absolute path full holds a file or a directory *)
NonEmptyDir(fl, ds, full) ==
  /\ full \in ds
  /\ \E q \in DOMAIN fl \cup ds : q # full /\ IsPrefix(full, q)

(* C15: fs.rm of a non-empty directory without the recursive flag is      *)
(* answered with an error, which the facade throws, and it changes        *)
(* neither the files on disk nor the file cache of any container.         *)
C15_RmNonEmptyFails ==
  [][(out'.op = "rm"
        /\ out'.arg[2] = FALSE
        /\ NonEmptyDir(files, dirs, PathJoin(ContainerDir(out'.id), out'.arg[1])))
      => /\ ~ResponseOk(out'.resp)
         /\ RmResult(out'.resp) = "Failed to remove"
         /\ files' = files
         /\ dirs' = dirs
         /\ heap' = heap]_vars

C15_Witness ==
  /\ out.op = "rm"
  /\ out.arg[2] = FALSE
  /\ out.resp.status = 404
  /\ NonEmptyDir(files, dirs, PathJoin(ContainerDir(out.id), out.arg[1]))
  /\ <<"d", "a">> \in DOMAIN Session(out.id).files

(* C16: with pipeTo attached to the output of a spawn, the chunk of every  *)
(* process-output message of its process that arrives on the WebSocket is *)
(* written to the writable, after the chunks written before it, and a     *)
(* message of another process or type writes nothing.                     *)
C16_PipeToWritesOutputInOrder ==
  [][(ReceiveStep(SpawnSocket) /\ spawned.consumer = "pipeTo") =>
       LET data == Head(inbox[SpawnSocket])
       IN IF ForProcess(spawned, data, "process-output")
          THEN spawned'.sink = Keep(Append(spawned.sink, data.output))
          ELSE spawned'.sink = spawned.sink]_vars

(* C17: when the process-completed message of its process arrives on the  *)
(* WebSocket of a spawn that has a consumer attached to its output        *)
(* (pipeTo, getReader or tee), the promise exit is resolved with the exit *)
(* code of the message.                                                   *)
C17_ExitResolvesWithConsumerAttached ==
  [][(ReceiveStep(SpawnSocket)
        /\ spawned.consumer # "none"
        /\ ForProcess(spawned, Head(inbox[SpawnSocket]), "process-completed"))
      => spawned'.exit = Head(inbox[SpawnSocket]).exitCode]_vars

C19_OutputInOrderAndBeforeCompleted ==
  [][out'.op = "output" =>
       LET k == out'.arg[1]
       IN /\ procs[k].state = "running"
          /\ procs'[k].state = "running"
          /\ Len(out'.bcast) = 1
          /\ out'.bcast[1].data =
               [type |-> "process-output", previewId |-> procs[k].previewId,
                processId |-> procs[k].processId, output |-> out'.arg[3],
                stream |-> out'.arg[2]]
          /\ \A o \in DOMAIN heap :
               procs[k].processId \in DOMAIN heap[o].processes
                 => o = procs[k].container]_vars

C19_Witness ==
  /\ out.op = "output"
  /\ out.arg[2] = "stderr"
  /\ out.bcast[1].to # {}
  /\ Cardinality(Running(procs)) = 2

(* C20: the exitCode of a process-completed message is a number, 0 exactly *)
(* when the command succeeded and the status or signal code of the child   *)
(* otherwise, and the exit of a child is reported by that message only.    *)
C20_ExitCodeIsNumeric ==
  out.op = "exit" =>
    /\ out.resp = NoResp
    /\ Len(out.bcast) = 1
    /\ out.bcast[1].data.type = "process-completed"
    /\ out.bcast[1].data.exitCode # Null
    /\ out.bcast[1].data.exitCode >= 0
    /\ (out.bcast[1].data.exitCode = 0)
         <=> (out.arg[3].code = 0 /\ out.arg[3].signal = "")

(* the file cache of the session registered under i in registry c with    *)
(* objects h; no entry while none is registered                           *)
Cache(c, h, i) == IF c[i] # NoObj THEN h[c[i]].files ELSE EmptyMap

(* C21: a write that succeeds stores the content at the location of the   *)
(* path, sets the cache entry of the path to the content and hands one    *)
(* file-change message with the path to the hub, for the open clients of  *)
(* the session; a write that fails while persisting is answered with an   *)
(* error, changes no file and no cache entry and hands nothing to the hub. *)
C21_WritePersistsCachesAndBroadcasts ==
  [][(out'.op = "write" /\ out'.resp.status # 400) =>
       LET i == out'.id
           filePath == out'.arg[1]
           content == out'.arg[2]
           full == PathJoin(ContainerDir(i), filePath)
       IN IF out'.resp.status = 200
          THEN /\ full \in DOMAIN files'
               /\ files'[full] = content
               /\ Cache(containers', heap', i)
                    = MapSet(Cache(containers, heap, i), filePath, content)
               /\ Len(out'.bcast) = 1
               /\ out'.bcast[1].data =
                    [type |-> "file-change", previewId |-> i, path |-> filePath]
               /\ out'.bcast[1].to =
                    {s \in Sockets : ws[s].state = "open" /\ ws[s].previewId = i}
          ELSE /\ out'.resp.status = 500
               /\ "error" \in DOMAIN out'.resp.body
               /\ files' = files
               /\ Cache(containers', heap', i) = Cache(containers, heap, i)
               /\ out'.bcast = NoBroadcast]_vars

C21_Witness ==
  /\ out.op = "write"
  /\ out.resp.status = 500
  /\ Registered(out.id)
  /\ Session(out.id).files # EmptyMap
  /\ Session(out.id).clients # {}

(* C22: a write without path or content, a read without path and an       *)
(* execute without command are answered with status 400 and an error,     *)
(* and change nothing: no container is created, no cache entry, file,     *)
(* directory or process is added, and nothing is handed to the hub.       *)
C22_InvalidRequestChangesNothing ==
  [][( \/ out'.op = "write" /\ (out'.arg[1] = EmptyPath \/ out'.arg[2] = Undefined)
       \/ out'.op = "read" /\ out'.arg[1] = EmptyPath
       \/ out'.op = "execute" /\ out'.arg[1] = "" )
      => /\ out'.resp.status = 400
         /\ "error" \in DOMAIN out'.resp.body
         /\ out'.bcast = NoBroadcast
         /\ UNCHANGED server
         /\ inbox' = inbox]_vars

C22_Witness ==
  /\ out.op = "write"
  /\ out.arg[1] # EmptyPath
  /\ out.arg[2] = Undefined
  /\ out.resp.status = 400
  /\ ~Registered(out.id)

(* C23: a message handed to the hub is sent once, to exactly the          *)
(* connections that are in the client set of the container registered     *)
(* under the identifier and open; a connection that is closing is left    *)
(* out while the others get the message, and with no container            *)
(* registered under the identifier nobody gets it.                        *)
C23_BroadcastToOpenRegisteredClients ==
  /\ Len(out.bcast) <= 1
  /\ \A n \in DOMAIN out.bcast :
       LET b == out.bcast[n]
       IN IF Registered(b.previewId)
          THEN b.to = {s \in Sockets : /\ s \in Session(b.previewId).clients
                                       /\ ws[s].state = "open"}
          ELSE b.to = {}

C23_Witness ==
  /\ out.bcast # <<>>
  /\ out.bcast[1].to # {}
  /\ \E s \in Session(out.id).clients : ws[s].state = "closing"

(* C24: a message that is malformed or of a type the handler does not     *)
(* know is dropped: nothing is handed to the hub, the registry, the       *)
(* containers and the connections are unchanged, and the connection stays *)
(* open and in the client set of its container; a file-change message     *)
(* that follows on the same connection is handled.                        *)
C24_MalformedMessageIsDropped ==
  /\ [][(out'.op = "message" /\ out'.arg[2] \notin {"file-change", "preview-ready"})
         => /\ out'.bcast = NoBroadcast
            /\ UNCHANGED server
            /\ inbox' = inbox
            /\ ws'[out'.arg[1]].state = "open"
            /\ out'.arg[1] \in heap'[containers'[out'.id]].clients]_vars
  /\ [][( /\ out.op = "message"
          /\ out.arg[2] \notin {"file-change", "preview-ready"}
          /\ out'.op = "message"
          /\ out'.arg[1] = out.arg[1]
          /\ out'.arg[2] = "file-change" )
         => /\ Len(out'.bcast) = 1
            /\ out'.bcast[1].data.type = "refresh-preview"
            /\ out'.arg[1] \in out'.bcast[1].to]_vars

C24_Witness ==
  /\ out.op = "message"
  /\ out.arg[2] = "malformed"
  /\ ws[out.arg[1]].state = "open"
  /\ Cardinality(Session(out.id).clients) = 2

(* C25: every entry of the file cache of a registered session holds the   *)
(* content that the file at the location of its path has on disk.         *)
C25_CacheShadowsDisk ==
  \A i \in PreviewIds :
    Registered(i) =>
      \A p \in DOMAIN Session(i).files :
        LET full == PathJoin(Session(i).dir, p)
        IN /\ full \in DOMAIN files
           /\ files[full] = Session(i).files[p]

(* C26: a chunk written to the input writer of a spawn whose WebSocket is *)
(* open is appended to the standard input of the child that runs the      *)
(* process of the spawn.                                                  *)
C26_InputReachesStdin ==
  [][(out'.op = "message" /\ out'.arg[2] = "process-input") =>
       \A k \in Running(procs) :
         procs[k].processId = spawned.processId =>
           \E ch \in Chunks : procs'[k].stdin = Append(procs[k].stdin, ch)]_vars

(* C27: an inbound file-change message makes the hub send one             *)
(* refresh-preview message, and an inbound preview-ready message one      *)
(* preview-ready message with the preview URL of the session, to every    *)
(* open connection of the sender's session, the sender among them, and to *)
(* no connection of another session.                                      *)
C27_InboundMessagesAreRebroadcast ==
  (out.op = "message" /\ out.arg[2] \in {"file-change", "preview-ready"}) =>
    /\ Len(out.bcast) = 1
    /\ out.bcast[1].data =
         IF out.arg[2] = "file-change"
         THEN [type |-> "refresh-preview", previewId |-> out.id]
         ELSE [type |-> "preview-ready", previewId |-> out.id,
               url |-> <<"", "preview", out.id>>]
    /\ out.bcast[1].to =
         {s \in Sockets : ws[s].state = "open" /\ ws[s].previewId = out.id}
    /\ out.arg[1] \in out.bcast[1].to
    /\ ws[out.arg[1]].previewId = out.id

C27_Witness ==
  /\ out.op = "message"
  /\ out.arg[2] = "preview-ready"
  /\ out.id = "s2"
  /\ out.bcast[1].to = {out.arg[1]}
  /\ \E s \in Sockets : ws[s].state = "open" /\ ws[s].previewId = "s1"

(* C28: the handle of every running process is in the process set of the  *)
(* container that is registered under the identifier of its session.      *)
C28_RunningHandleInRegisteredSession ==
  \A k \in Running(procs) :
    Registered(procs[k].previewId) =>
      procs[k].processId \in DOMAIN Session(procs[k].previewId).processes

(* C29: a connection that names no identifier is closed in the step that  *)
(* accepts it: it never becomes a live connection, no container is        *)
(* created, and no client set, timer, file or other connection changes.   *)
C29_ConnectionWithoutIdIsClosed ==
  [][(out'.op = "connect" /\ out'.id = "") =>
       /\ ws'[out'.arg[1]].state \notin {"open", "closing"}
       /\ \A t \in Sockets \ {out'.arg[1]} : ws'[t] = ws[t]
       /\ containers' = containers
       /\ heap' = heap
       /\ UNCHANGED <<timers, files, dirs, procs>>
       /\ out'.bcast = NoBroadcast]_vars

C29_Witness ==
  /\ out.op = "connect"
  /\ out.id = ""
  /\ ws[out.arg[1]].state = "fresh"
  /\ \E i \in PreviewIds : Registered(i) /\ Session(i).clients # {}

(* C30: on(e, cb) appends cb to the listeners of e, and off(e, cb) leaves *)
(* of the listeners of e exactly the callbacks other than cb, in their    *)
(* order; both leave the listeners of every other event as they are, off  *)
(* for an event without listeners changes nothing, and the registry       *)
(* changes by calls of on and off only.                                   *)
C30_OnOffFrame ==
  /\ [](\A e \in EventNames, cb \in Callbacks :
          LET added == on(eventListeners, e, cb)
              removed == off(eventListeners, e, cb)
              Other(x) == x # cb
          IN /\ added[e] = Append(eventListeners[e], cb)
             /\ removed[e] = SelectSeq(eventListeners[e], Other)
             /\ \A e2 \in EventNames \ {e} :
                  /\ added[e2] = eventListeners[e2]
                  /\ removed[e2] = eventListeners[e2]
             /\ eventListeners[e] = <<>> => removed = eventListeners)
  /\ [][eventListeners' # eventListeners =>
          \E e \in EventNames, cb \in Callbacks :
            \/ eventListeners' = on(eventListeners, e, cb)
            \/ eventListeners' = off(eventListeners, e, cb)]_vars

C30_Witness ==
  /\ eventListeners["server-ready"] = <<"cb2", "cb1">>
  /\ eventListeners["file-change"] # <<>>
  /\ eventListeners["preview-message"] = <<>>

====
